---- MODULE Spec2Model ----
(***************************************************************************)
(* Indexing pipeline of the personal-diary RAG assistant: the per-user     *)
(* Entry Store (SQLite), the per-user vector collection (Chroma), the      *)
(* sync-state files and the IndexingOrchestrator runs that connect them.   *)
(*                                                                         *)
(* Time is a logical clock of ticks.  SQLite's CURRENT_TIMESTAMP is UTC,   *)
(* Python's datetime.now() is the host's local time, so the two clocks     *)
(* differ by the host's UTC offset (tz).  Timestamps are kept as the       *)
(* strings the program stores: <<date, separator, time-of-day>>, where the *)
(* separator is the character between date and time (' ' for SQLite,      *)
(* 'T' for datetime.isoformat()).  Sub-tick digits (the microseconds of    *)
(* datetime.now()) come after the fields modelled here and never decide a  *)
(* comparison that the earlier fields leave open in this model's runs.     *)
(* The local file system and SQLite are taken to be reliable; the          *)
(* embedding backend and the vector store may raise.                       *)
(***************************************************************************)
EXTENDS Integers, Sequences, FiniteSets, Bags, TLC

\* ------------------------------------------------------------------ bounds
Users == {1, 2}
MaxEntries == 2
MaxClock == 3
MaxColl == 4
MaxKeys == 2
TicksPerDay == 2
LongChunks == 2
TZOffsets == {-1, 0}

\* ------------------------------------------------------- program constants
batch_size == 2
SP == 32
TEE == 84
SevenDays == 7

None == <<>>
Contents == {"short", "long"}

VARIABLES
    now,        \* UTC clock, in ticks
    tz,         \* host UTC offset, in ticks: datetime.now() = now + tz
    db,         \* user database path -> set of diary_entries rows
    nextId,     \* user database path -> next AUTOINCREMENT id
    coll,       \* collection name -> bag of stored chunk metadata
    syncFile,   \* orchestrator sync file path -> stored text, or None
    autoSync,   \* AutoSyncManager sync file path -> stored text, or None
    run,        \* user -> the orchestrator run in flight for that user
    last        \* the call that returned last, and what it returned

vars == <<now, tz, db, nextId, coll, syncFile, autoSync, run, last>>

\* --------------------------------------------------------- per-user paths
\* IndexingConfig.user_db_path: f"{base_db_path}/user_{user_id}_diary.db"
user_db_path(u) == <<"user", u, "diary.db">>

\* IndexingConfig.collection_name / DiaryEmbeddingAndStorage.__init__:
\* f"user_{user_id}_diary_entries" inside f"user_{user_id}_vector_db"
collection_name(u) == <<"user", u, "diary_entries">>

\* One sync file for every user.
_get_sync_file_path_shared(u) == <<"Indexingstep", "last_sync_user", 0>>

\* SyncStateStore._get_sync_file_path: f"last_sync_user_{user_id}.txt"
_get_sync_file_path(u) == <<"Indexingstep", "last_sync_user", u>>

\* AutoSyncManager: os.path.dirname(__file__)/last_sync_user_{user_id}.txt
auto_sync_file(u) == <<"streamlit_app", "last_sync_user", u>>

DbPaths == {user_db_path(u) : u \in Users}
CollNames == {collection_name(u) : u \in Users}
SyncPaths == {_get_sync_file_path(u) : u \in Users}
AutoSyncPaths == {auto_sync_file(u) : u \in Users}

\* ------------------------------------------------------ timestamp strings
\* 'YYYY-MM-DD HH:MM:SS' as written by SQLite's CURRENT_TIMESTAMP or strftime
SqlFormat(t) == <<t \div TicksPerDay, SP, t % TicksPerDay>>

\* A writer that keeps the date and drops the time of day.
isoformat_date_only(t) == <<t \div TicksPerDay, TEE, 0>>

\* datetime.isoformat(): 'YYYY-MM-DDTHH:MM:SS'
isoformat(t) == <<t \div TicksPerDay, TEE, t % TicksPerDay>>

\* datetime.fromisoformat(): accepts any single separator character
fromisoformat(s) == s[1] * TicksPerDay + s[3]

\* SQLite text comparison (memcmp) of two timestamp strings: a > b
TextGreater(a, b) ==
    \/ a[1] > b[1]
    \/ a[1] = b[1] /\ a[2] > b[2]
    \/ a[1] = b[1] /\ a[2] = b[2] /\ a[3] > b[3]

\* datetime.now(): local wall clock
LocalNow == now + tz

SetMax(S) == CHOOSE x \in S : \A y \in S : y <= x

\* ------------------------------------------------------------ sync state
\* SyncStateStore.get_last_sync
\* (an Optional[datetime]: None, or <<t>>)
get_last_sync(u) ==
    IF syncFile[_get_sync_file_path(u)] = None THEN None
    ELSE <<fromisoformat(syncFile[_get_sync_file_path(u)])>>

\* SyncStateStore.save_last_sync
save_last_sync(u, t) ==
    syncFile' = [syncFile EXCEPT ![_get_sync_file_path(u)] = isoformat(t)]

\* SyncStateStore.clear_sync_state: os.remove(sync_file) when it exists
clear_sync_state(u) ==
    syncFile' = [syncFile EXCEPT ![_get_sync_file_path(u)] = None]

\* ------------------------------------------------------------ repository
\* DiaryRepository.load_all_entries: every row of the user's database
load_all_entries(u) == db[user_db_path(u)]

\* DiaryRepository.load_incremental_entries:
\* WHERE user_id = ? AND created_at > ?  with the parameter since.isoformat()
load_incremental_entries(u, since) ==
    {e \in db[user_db_path(u)] : TextGreater(e.created_at, isoformat(since))}

\* The rows come back ORDER BY date DESC, created_at DESC; date is free user
\* input, so every order of the selected rows can occur.
Orderings(S) ==
    {s \in [1..Cardinality(S) -> S] : \A i, j \in 1..Cardinality(S) :
                                          i # j => s[i] # s[j]}

\* ---------------------------------------------------------------- chunking
\* DiaryTextSplitter.split_diary_entry: number of chunks of an entry
SplitCount(content) == IF content = "long" THEN LongChunks ELSE 1

\* A metadata value keeps its Python type: 7 and "7" are different values.
IntVal(n) == <<"int", n>>
StrVal(n) == <<"str", n>>

\* DiaryChunk.from_entry_and_text: metadata entry_id is the integer id
from_entry_and_text(e, i) == [entry_id |-> IntVal(e.id), chunk_index |-> i]

RECURSIVE process_entries(_)
\* IndexingOrchestrator.process_entries
process_entries(entries) ==
    IF entries = <<>> THEN <<>>
    ELSE [i \in 1..SplitCount(Head(entries).content) |->
              from_entry_and_text(Head(entries), i - 1)]
         \o process_entries(Tail(entries))

\* The earliest created_at of the entries instead of the latest.
_compute_latest_timestamp_earliest(entries) ==
    LET S == {fromisoformat(entries[i].created_at) : i \in 1..Len(entries)}
    IN CHOOSE x \in S : \A y \in S : x <= y

\* IndexingOrchestrator._compute_latest_timestamp (entries non-empty)
_compute_latest_timestamp(entries) ==
    SetMax({fromisoformat(entries[i].created_at) : i \in 1..Len(entries)})

RECURSIVE SeqToBag(_)
SeqToBag(s) ==
    IF s = <<>> THEN EmptyBag ELSE SetToBag({Head(s)}) (+) SeqToBag(Tail(s))

Min(a, b) == IF a < b THEN a ELSE b

\* documents[i:i + batch_size]
Batch(chunks, i) == SubSeq(chunks, i + 1, Min(i + batch_size, Len(chunks)))

RECURSIVE SumOver(_, _)
SumOver(f, S) ==
    IF S = {} THEN 0
    ELSE LET x == CHOOSE y \in S : TRUE IN f[x] + SumOver(f, S \ {x})

\* ids issued by all user databases / chunks in all collections
TotalRows == SumOver([p \in DbPaths |-> nextId[p] - 1], DbPaths)
TotalChunks == SumOver([c \in CollNames |-> BagCardinality(coll[c])], CollNames)

Idle == [pc |-> "idle"]
NoCall == [op |-> "none"]

\* What a returning orchestrator run leaves in `last`
RunResult(u, kind, result) ==
    [op |-> "run", user |-> u, kind |-> kind, result |-> result]

\* The collection of user u is written by a step of a run: a series of
\* delete calls on it ends.
AfterWrite(u) ==
    IF last.op = "delete_documents_by_metadata" /\ last.user = u
    THEN NoCall ELSE last

\* ------------------------------------------------------------------- Init
Init ==
    /\ now = 1
    /\ tz \in TZOffsets
    /\ db = [p \in DbPaths |-> {}]
    /\ nextId = [p \in DbPaths |-> 1]
    /\ coll = [c \in CollNames |-> EmptyBag]
    /\ syncFile = [p \in SyncPaths |-> None]
    /\ autoSync = [p \in AutoSyncPaths |-> None]
    /\ run = [u \in Users |-> Idle]
    /\ last = NoCall

\* The clock advances.
Tick ==
    /\ now < MaxClock
    /\ now' = now + 1
    /\ UNCHANGED <<tz, db, nextId, coll, syncFile, autoSync, run, last>>

\* submit_text_to_database_direct: INSERT INTO diary_entries (user_id, date,
\* content, tags); id is AUTOINCREMENT, created_at is CURRENT_TIMESTAMP (UTC).
submit_text_to_database_direct(u) ==
    /\ TotalRows < MaxEntries
    /\ \E c \in Contents :
          db' = [db EXCEPT ![user_db_path(u)] =
                    @ \cup {[id |-> nextId[user_db_path(u)],
                             created_at |-> SqlFormat(now),
                             content |-> c]}]
    /\ nextId' = [nextId EXCEPT ![user_db_path(u)] = @ + 1]
    /\ UNCHANGED <<now, tz, coll, syncFile, autoSync, run, last>>

\* ------------------------------------------------ orchestrator run, steps
\* AutoSyncManager.update_last_sync_time(): datetime.now().isoformat()
update_last_sync_time(u) ==
    autoSync' = [autoSync EXCEPT ![auto_sync_file(u)] = isoformat(LocalNow)]

\* The run returns to its caller.  A run started by AutoSyncManager.run_sync
\* (through auto_index_new_entries) is followed by run_sync's last step:
\* update_last_sync_time() when the run reported success.
Return(u, caller, success) ==
    /\ run' = [run EXCEPT ![u] = Idle]
    /\ IF caller = "sync" /\ success
       THEN update_last_sync_time(u)
       ELSE UNCHANGED autoSync

\* The run just loaded `rows`: return True when there is nothing to do,
\* otherwise process the entries and go on to embed_and_store.
AfterLoad(u, kind, caller, rows, pre) ==
    IF rows = {}
    THEN /\ Return(u, caller, TRUE)
         /\ last' = RunResult(u, kind, "ok_no_entries")
    ELSE /\ \E order \in Orderings(rows) :
               run' = [run EXCEPT ![u] =
                          [pc |-> "embed", kind |-> kind, caller |-> caller,
                           entries |-> order, i |-> 0, pre |-> pre,
                           cleared |-> IF kind = "full" THEN run[u].cleared
                                       ELSE TRUE]]
         /\ UNCHANGED <<last, autoSync>>

\* IndexingOrchestrator.load_incremental_entries: the rows since the last
\* sync, every row when there is no sync state.
orchestrator_load_incremental_entries(u) ==
    LET last_sync == get_last_sync(u)
    IN IF last_sync # None
       THEN load_incremental_entries(u, last_sync[1])
       ELSE load_all_entries(u)

\* run_incremental_indexing, up to the start of embed_and_store:
\* load_incremental_entries, then process_entries.
IncrLoad(u) ==
    /\ run[u].pc \in {"idle", "start"}
    /\ AfterLoad(u, "incr", IF run[u].pc = "start" THEN "sync" ELSE "cli",
                 orchestrator_load_incremental_entries(u),
                 syncFile[_get_sync_file_path(u)])
    /\ UNCHANGED <<now, tz, db, nextId, coll, syncFile>>

\* DiaryEmbeddingAndStorage.clear_collection: False when the store raises
clear_collection(u, raised) ==
    coll' = [coll EXCEPT ![collection_name(u)] = IF raised THEN @ ELSE EmptyBag]

\* run_full_reindexing, first step: clear_collection.  Its result is not
\* looked at; when the vector store raises, clear_collection returns False
\* and the run goes on (`cleared` keeps the result for the observer, the
\* run never reads it).
FullClear(u) ==
    /\ run[u].pc = "idle"
    /\ \E raised \in BOOLEAN :
          /\ clear_collection(u, raised)
          /\ run' = [run EXCEPT ![u] = [pc |-> "load", kind |-> "full",
                                        cleared |-> ~raised]]
    /\ last' = AfterWrite(u)
    /\ UNCHANGED <<now, tz, db, nextId, syncFile, autoSync>>

\* run_full_reindexing: load_all_entries, then process_entries.
FullLoad(u) ==
    /\ run[u].pc = "load"
    /\ AfterLoad(u, "full", "cli", load_all_entries(u),
                 syncFile[_get_sync_file_path(u)])
    /\ UNCHANGED <<now, tz, db, nextId, coll, syncFile>>

\* DiaryEmbeddingAndStorage.embed_and_store_documents: add_documents stores
\* every document of the batch under a fresh id.
embed_and_store_documents(u, batch) ==
    coll' = [coll EXCEPT ![collection_name(u)] = @ (+) SeqToBag(batch)]

\* A batch loop that stops after its first batch.
EmbedBatchOk_first_batch_only(u) ==
    /\ run[u].pc = "embed"
    /\ LET chunks == process_entries(run[u].entries)
           batch == Batch(chunks, run[u].i)
       IN /\ TotalChunks + Len(batch) <= MaxColl
          /\ embed_and_store_documents(u, batch)
          /\ run' = [run EXCEPT ![u].i = @ + batch_size, ![u].pc = "save"]
    /\ last' = AfterWrite(u)
    /\ UNCHANGED <<now, tz, db, nextId, syncFile, autoSync>>

\* embed_and_store: one iteration of the batch loop.
EmbedBatchOk(u) ==
    /\ run[u].pc = "embed"
    /\ LET chunks == process_entries(run[u].entries)
           batch == Batch(chunks, run[u].i)
       IN /\ TotalChunks + Len(batch) <= MaxColl
          /\ embed_and_store_documents(u, batch)
          /\ run' = [run EXCEPT ![u].i = @ + batch_size,
                                ![u].pc = IF run[u].i + batch_size >= Len(chunks)
                                          THEN "save" ELSE "embed"]
    /\ last' = AfterWrite(u)
    /\ UNCHANGED <<now, tz, db, nextId, syncFile, autoSync>>

\* A failure path that saves the watermark as the success path does.
EmbedBatchFail_saves_watermark(u) ==
    /\ run[u].pc = "embed"
    /\ IF run[u].kind = "incr"
       THEN save_last_sync(u, _compute_latest_timestamp(run[u].entries))
       ELSE save_last_sync(u, LocalNow)
    /\ Return(u, run[u].caller, FALSE)
    /\ last' = RunResult(u, run[u].kind, "embed_failed")
    /\ UNCHANGED <<now, tz, db, nextId, coll>>

\* embed_and_store: embed_and_store_documents raises for the current batch;
\* the exception ends the loop, embed_and_store returns False and so does
\* the run, without touching the sync state.
EmbedBatchFail(u) ==
    /\ run[u].pc = "embed"
    /\ Return(u, run[u].caller, FALSE)
    /\ last' = RunResult(u, run[u].kind, "embed_failed")
    /\ UNCHANGED <<now, tz, db, nextId, coll, syncFile>>

\* `if success:` branch of run_incremental_indexing / run_full_reindexing
SaveWatermark(u) ==
    /\ run[u].pc = "save"
    /\ IF run[u].kind = "incr"
       THEN save_last_sync(u, _compute_latest_timestamp(run[u].entries))
       ELSE save_last_sync(u, LocalNow)
    /\ Return(u, run[u].caller, TRUE)
    /\ last' = RunResult(u, run[u].kind, "ok")
    /\ UNCHANGED <<now, tz, db, nextId, coll>>

\* The process running the orchestrator is killed (crash, KeyboardInterrupt).
Crash(u) ==
    /\ run[u].pc # "idle"
    /\ run' = [run EXCEPT ![u] = Idle]
    /\ UNCHANGED <<now, tz, db, nextId, coll, syncFile, autoSync, last>>

RunStep(u) ==
    \/ IncrLoad(u)
    \/ FullClear(u)
    \/ FullLoad(u)
    \/ EmbedBatchOk(u)
    \/ EmbedBatchFail(u)
    \/ SaveWatermark(u)
    \/ Crash(u)

\* -------------------------------------------------------------- deletion
\* Number of stored chunks whose metadata entry_id equals `value`
\* (metadata.get(key) != value is Python's typed comparison).
Matching(c, value) == {m \in BagToSet(c) : m.entry_id = value}

CountMatching(c, value) ==
    SumOver([m \in Matching(c, value) |-> CopiesIn(m, c)], Matching(c, value))

\* A deletion that finds the matching chunks and removes none of them.
WithoutMatching_keeps_all(c, value) == c

\* The collection without the chunks that match
WithoutMatching(c, value) ==
    [m \in BagToSet(c) \ Matching(c, value) |-> CopiesIn(m, c)]

\* Number of delete_documents_by_metadata calls with this value that have
\* just been made in a row on user u's collection, none of them raising.
Streak(u, value) ==
    IF /\ last.op = "delete_documents_by_metadata"
       /\ last.user = u
       /\ last.ok
       /\ last.value = value
    THEN last.streak ELSE 0

\* DiaryEmbeddingAndStorage.delete_documents_by_metadata({"entry_id": value}):
\* True after deleting the matching ids (or finding none), False when the
\* vector store raises.  `last` keeps the call's filter value, its result,
\* the number of chunks it deleted, its place in the series of such calls
\* (1: first, 2: a later one) and the number of chunks the call before it
\* in the series deleted.
delete_documents_by_metadata(u, value, raised) ==
    LET c == coll[collection_name(u)] IN
    /\ coll' = [coll EXCEPT ![collection_name(u)] =
                   IF raised THEN @ ELSE WithoutMatching(c, value)]
    /\ last' = IF raised
               THEN [op |-> "delete_documents_by_metadata", user |-> u,
                     ok |-> FALSE]
               ELSE [op |-> "delete_documents_by_metadata", user |-> u,
                     ok |-> TRUE, value |-> value,
                     deleted |-> CountMatching(c, value),
                     streak |-> IF Streak(u, value) > 0 THEN 2 ELSE 1,
                     prev |-> IF Streak(u, value) > 0 THEN last.deleted ELSE 0]

\* ids the user's database has issued so far
EntryIds(u) == 1..(nextId[user_db_path(u)] - 1)

\* A caller deletes an entry's chunks with the id as it has it, e.g.
\* SimpleDiaryChatbot.delete_entry: {"entry_id": entry_id} with the integer.
DeleteByEntryId(u) ==
    /\ \E e \in EntryIds(u), raised \in BOOLEAN :
          delete_documents_by_metadata(u, IntVal(e), raised)
    /\ UNCHANGED <<now, tz, db, nextId, syncFile, autoSync, run>>

\* AutoSyncManager.auto_remove_deleted_entries([e]):
\* filter_criteria = {"entry_id": str(entry_id)}
auto_remove_deleted_entries(u) ==
    /\ \E e \in EntryIds(u), raised \in BOOLEAN :
          delete_documents_by_metadata(u, StrVal(e), raised)
    /\ UNCHANGED <<now, tz, db, nextId, syncFile, autoSync, run>>

\* AutoSyncManager.get_changed_entries(since): rows with
\* created_at > since.strftime('%Y-%m-%d %H:%M:%S'); 'deleted_entries' is
\* always the empty list.
get_changed_entries(rows, since) ==
    {e \in rows : TextGreater(e.created_at, SqlFormat(since))}

\* delete_diary_entry(entry_id, user_id): delete_diary_entry_direct removes
\* the row, then AutoSyncManager.run_sync() runs: it looks for new entries
\* since its own last sync time (a week ago when it has none); with none it
\* only updates that time, otherwise auto_index_new_entries starts an
\* incremental indexing run.  run_sync never calls
\* auto_remove_deleted_entries.
delete_diary_entry(u) ==
    /\ run[u].pc = "idle"
    /\ \E e \in db[user_db_path(u)] :
          LET rows == db[user_db_path(u)] \ {e}
              stored == autoSync[auto_sync_file(u)]
              since == IF stored = None
                       THEN LocalNow - SevenDays * TicksPerDay
                       ELSE fromisoformat(stored)
          IN /\ db' = [db EXCEPT ![user_db_path(u)] = rows]
             /\ IF get_changed_entries(rows, since) = {}
                THEN /\ update_last_sync_time(u)
                     /\ UNCHANGED run
                ELSE /\ run' = [run EXCEPT ![u] =
                                   [pc |-> "start", kind |-> "incr"]]
                     /\ UNCHANGED autoSync
             /\ last' = [op |-> "delete_diary_entry", user |-> u, id |-> e.id]
    /\ UNCHANGED <<now, tz, nextId, coll, syncFile>>

\* ---------------------------------------------------------- specifications
Alice == CHOOSE u \in Users : TRUE

\* One user's stores through time: entries are saved, indexing runs start,
\* proceed batch by batch, fail or are killed, while the clock advances.
Next ==
    \/ Tick
    \/ submit_text_to_database_direct(Alice)
    \/ RunStep(Alice)

Spec == Init /\ [][Next]_vars

\* One user's stores with the deletion paths, the clock stopped (host in
\* UTC).
NextDel ==
    \/ submit_text_to_database_direct(Alice)
    \/ RunStep(Alice)
    \/ DeleteByEntryId(Alice)
    \/ auto_remove_deleted_entries(Alice)
    \/ delete_diary_entry(Alice)

InitUTC == Init /\ tz = 0

SpecDel == InitUTC /\ [][NextDel]_vars

\* All users side by side: entries, indexing runs and chunk deletions of
\* every user interleaved, with the clock stopped.
NextIso ==
    \E u \in Users :
        \/ submit_text_to_database_direct(u)
        \/ RunStep(u)
        \/ DeleteByEntryId(u)
        \/ auto_remove_deleted_entries(u)

SpecIso == InitUTC /\ [][NextIso]_vars

\* A second process (another browser session's run_sync, the command line)
\* runs run_incremental_indexing for the same user from start to successful
\* end; nothing in the code makes it wait for a run already in flight.
ConcurrentIncrementalRun(u) ==
    LET rows == orchestrator_load_incremental_entries(u)
    IN /\ rows # {}
       /\ \E order \in Orderings(rows) :
             LET chunks == process_entries(order)
             IN /\ TotalChunks + Len(chunks) <= MaxColl
                /\ embed_and_store_documents(u, chunks)
                /\ save_last_sync(u, _compute_latest_timestamp(order))
       /\ last' = RunResult(u, "incr", "ok")
       /\ UNCHANGED <<now, tz, db, nextId, autoSync, run>>

\* Incremental runs of one user that all succeed, started by two processes.
NextConc ==
    \/ Tick
    \/ submit_text_to_database_direct(Alice)
    \/ IncrLoad(Alice)
    \/ EmbedBatchOk(Alice)
    \/ SaveWatermark(Alice)
    \/ ConcurrentIncrementalRun(Alice)

SpecConc == Init /\ [][NextConc]_vars

\* ------------------------------------------------------- metadata coercion
\* A metadata value is <<type, payload>>.  A string is the sequence of its
\* pieces, so that joining and formatting build strings that can be compared.
MetaStr(pieces) == <<"str", pieces>>
MetaList(items) == <<"list", items>>

ListItems == {MetaStr(<<"x">>), <<"int", 1>>}

MetaValues ==
    {MetaStr(<<"x">>), <<"int", 1>>, <<"float", 1>>, <<"bool", TRUE>>,
     <<"none", 0>>, <<"dict", 0>>, <<"set", 0>>, MetaList(<<>>)}
    \cup {MetaList(<<a>>) : a \in ListItems}
    \cup {MetaList(<<a, b>>) : a, b \in ListItems}

\* A key is the sequence of its '_'-separated parts: f"{key}_list" is
\* Append(key, "list").
MetaKeys == {<<"tags">>, <<"tags", "list">>, <<"tags", "count">>, <<"mood">>}

\* A dict is the sequence of its items, in insertion order, keys distinct.
MetaItems == [key : MetaKeys, value : MetaValues]

MetaDicts ==
    UNION {{d \in [1..n -> MetaItems] :
               \A i, j \in 1..n : i # j => d[i].key # d[j].key}
           : n \in 0..MaxKeys}

\* key in d
HasKey(d, k) == \E i \in 1..Len(d) : d[i].key = k

\* d[k] = v: an existing key keeps its place, a new key goes last
Put(d, k, v) ==
    IF HasKey(d, k)
    THEN [i \in 1..Len(d) |-> IF d[i].key = k
                              THEN [key |-> k, value |-> v] ELSE d[i]]
    ELSE Append(d, [key |-> k, value |-> v])

\* d1 == d2 for dicts: the same items, in any order
DictItems(d) == {d[i] : i \in 1..Len(d)}

\* str(value)
str(v) ==
    CASE v[1] = "str" -> v[2]
      [] v[1] = "int" -> <<"1">>
      [] v[1] = "float" -> <<"1.0">>
      [] v[1] = "bool" -> <<"True">>
      [] v[1] = "none" -> <<"None">>
      [] v[1] = "set" -> <<"{'x'}">>
      [] OTHER -> <<"repr">>

RECURSIVE Join(_)
\* ", ".join(str(item) for item in value)
Join(items) ==
    IF items = <<>> THEN <<>>
    ELSE IF Len(items) = 1 THEN str(Head(items))
    ELSE str(Head(items)) \o <<", ">> \o Join(Tail(items))

Scalars == {"str", "int", "float", "bool", "none"}

\* A loop body that copies a dict value instead of skipping it.
FilterItem_copies_dict(filtered, key, value) ==
    IF value[1] \in Scalars \cup {"dict"} THEN Put(filtered, key, value)
    ELSE IF value[1] = "list"
    THEN IF value[2] # <<>>
         THEN Put(Put(filtered, Append(key, "list"), MetaStr(Join(value[2]))),
                  Append(key, "count"), <<"int", Len(value[2])>>)
         ELSE filtered
    ELSE Put(filtered, key, MetaStr(str(value)))

\* A loop body that treats an empty list like any other list.
FilterItem_emits_empty_list(filtered, key, value) ==
    IF value[1] \in Scalars THEN Put(filtered, key, value)
    ELSE IF value[1] = "list"
    THEN Put(Put(filtered, Append(key, "list"), MetaStr(Join(value[2]))),
             Append(key, "count"), <<"int", Len(value[2])>>)
    ELSE IF value[1] = "dict" THEN filtered
    ELSE Put(filtered, key, MetaStr(str(value)))

\* A loop body that stores a list as it is under key_list.
FilterItem_keeps_list(filtered, key, value) ==
    IF value[1] \in Scalars THEN Put(filtered, key, value)
    ELSE IF value[1] = "list"
    THEN IF value[2] # <<>>
         THEN Put(Put(filtered, Append(key, "list"), value),
                  Append(key, "count"), <<"int", Len(value[2])>>)
         ELSE filtered
    ELSE IF value[1] = "dict" THEN filtered
    ELSE Put(filtered, key, MetaStr(str(value)))

\* _filter_metadata, body of the loop over metadata.items()
FilterItem(filtered, key, value) ==
    IF value[1] \in Scalars THEN Put(filtered, key, value)
    ELSE IF value[1] = "list"
    THEN IF value[2] # <<>>
         THEN Put(Put(filtered, Append(key, "list"), MetaStr(Join(value[2]))),
                  Append(key, "count"), <<"int", Len(value[2])>>)
         ELSE filtered
    ELSE IF value[1] = "dict" THEN filtered
    ELSE Put(filtered, key, MetaStr(str(value)))

RECURSIVE FilterLoop(_, _)
FilterLoop(items, filtered) ==
    IF items = <<>> THEN filtered
    ELSE FilterLoop(Tail(items),
                    FilterItem(filtered, Head(items).key, Head(items).value))

\* DiaryEmbeddingAndStorage._filter_metadata
_filter_metadata(metadata) == FilterLoop(metadata, <<>>)

\* embed_and_store_documents / embed_and_store_texts filter the metadata of
\* a document and hand the result to the vector store.
FilterCall ==
    /\ last = NoCall
    /\ \E metadata \in MetaDicts :
          last' = [op |-> "_filter_metadata", metadata |-> metadata,
                   filtered |-> _filter_metadata(metadata)]
    /\ UNCHANGED <<now, tz, db, nextId, coll, syncFile, autoSync, run>>

\* A document read back from the store is stored again: its filtered
\* metadata goes through _filter_metadata once more.
FilterAgain ==
    /\ last.op = "_filter_metadata"
    /\ last' = [op |-> "_filter_metadata", metadata |-> last.filtered,
                filtered |-> _filter_metadata(last.filtered)]
    /\ UNCHANGED <<now, tz, db, nextId, coll, syncFile, autoSync, run>>

NextMeta == FilterCall \/ FilterAgain

SpecMeta == InitUTC /\ [][NextMeta]_vars

\* The sync state store on its own: callers save and clear the sync state of
\* any user, with any instant.
Instants == 0..MaxClock

SyncSave(u) ==
    /\ \E t \in Instants :
          /\ save_last_sync(u, t)
          /\ last' = [op |-> "save_last_sync", user |-> u, t |-> t]
    /\ UNCHANGED <<now, tz, db, nextId, coll, autoSync, run>>

SyncClear(u) ==
    /\ clear_sync_state(u)
    /\ last' = [op |-> "clear_sync_state", user |-> u]
    /\ UNCHANGED <<now, tz, db, nextId, coll, autoSync, run>>

NextSync ==
    \/ Tick
    \/ \E u \in Users : SyncSave(u) \/ SyncClear(u)

SpecSync == Init /\ [][NextSync]_vars

\* ----------------------------------------------------------- entry splitting
\* Texts are described by their whitespace layout: lead whitespace characters,
\* then a core that starts and ends with a non-whitespace character (no core
\* when core = 0: the text is empty or whitespace only), then trail whitespace
\* characters.
MaxTextLen == 1005

chunk_size == 300

CharsPerToken == 4

SplitThreshold == 250

Pads == {0, 1, MaxTextLen - 1}

Texts == { t \in [lead : Pads, core : 0..MaxTextLen, trail : {0, 1}] :
             /\ t.lead + t.core + t.trail <= MaxTextLen
             /\ (t.core = 0 => t.trail = 0) }

\* len(text)
TextLen(t) == t.lead + t.core + t.trail

\* str.strip()
strip(t) == [lead |-> 0, core |-> t.core, trail |-> 0]

\* DiaryTextSplitter._estimate_tokens
_estimate_tokens(t) == TextLen(t) \div CharsPerToken

\* DiaryTextSplitter._should_split_entry
_should_split_entry(t) == _estimate_tokens(t) > SplitThreshold

\* One piece RecursiveCharacterTextSplitter.split_text can return: stripped,
\* never empty, at most chunk_size characters.
Pieces(t) == { [lead |-> 0, core |-> m, trail |-> 0] :
                 m \in {1, Min(t.core, chunk_size)} }

\* RecursiveCharacterTextSplitter.split_text: the pieces are joined and
\* stripped, and a piece that is empty after stripping is dropped, so a text
\* without a core gives no piece at all; the number and the lengths of the
\* pieces of any other text depend on where its separators are.
split_text(t) ==
    IF t.core = 0 THEN {<<>>}
    ELSE UNION { [1..n -> Pieces(t)] : n \in 1..LongChunks }

\* DiaryTextSplitter.split_documents on one document: the set of chunk-text
\* lists it can return.
split_documents(t) ==
    IF ~_should_split_entry(t) THEN {<<t>>} ELSE split_text(t)

\* DiaryTextSplitter.split_diary_entry: an entry whose content is the
\* "Title: ...\nContent: ..." envelope hands the stripped Content line to
\* split_documents, any other entry its content as it is.
split_diary_entry(envelope, t) ==
    split_documents(IF envelope THEN strip(t) ELSE t)

SplitDocumentsCall ==
    /\ last = NoCall
    /\ \E t \in Texts : \E chunks \in split_documents(t) :
         last' = [op |-> "split_documents", text |-> t, chunks |-> chunks]
    /\ UNCHANGED <<now, tz, db, nextId, coll, syncFile, autoSync, run>>

SplitDiaryEntryCall ==
    /\ last = NoCall
    /\ \E t \in Texts : \E envelope \in BOOLEAN :
         \E chunks \in split_diary_entry(envelope, t) :
           last' = [op |-> "split_diary_entry", text |-> t,
                    envelope |-> envelope, chunks |-> chunks]
    /\ UNCHANGED <<now, tz, db, nextId, coll, syncFile, autoSync, run>>

NextSplit == SplitDocumentsCall \/ SplitDiaryEntryCall

SpecSplit == InitUTC /\ [][NextSplit]_vars

\* ------------------------------------------------------------- loaded tags
\* A word is a sequence of letters; the content of a row is a sequence of
\* tokens, a token being a word with or without a leading '#'; the tags column
\* is NULL or a string, a string being its comma-separated pieces, each a word
\* (possibly empty) with or without whitespace around it.
MaxWord == 1

MaxTokens == 2

MaxPieces == 2

Letters == {"a", "A", "b"}

Words == UNION { [1..n -> Letters] : n \in 1..MaxWord }

Tokens == [hash : BOOLEAN, word : Words]

TokenTexts == UNION { [1..n -> Tokens] : n \in 0..MaxTokens }

TagPieces == [pad : BOOLEAN, word : Words \cup {<<>>}]

TagStrings == UNION { [1..n -> TagPieces] : n \in 1..MaxPieces }

TagColumns == {None} \cup { <<t>> : t \in TagStrings }

\* str.lower()
lower(w) ==
    [i \in 1..Len(w) |-> IF w[i] = "A" THEN "a" ELSE w[i]]

\* DiaryDataLoader._extract_tags_from_content: the set the returned list is
\* built from
_extract_tags_from_content(content) ==
    { lower(content[i].word) : i \in {j \in 1..Len(content) : content[j].hash} }

\* bool(db_tags): None and the empty string are false
Truthy(db_tags) ==
    /\ db_tags # None
    /\ db_tags[1] # <<[pad |-> FALSE, word |-> <<>>]>>

\* [tag.strip() for tag in db_tags.split(',') if tag.strip()] if db_tags
\* else []
db_tag_list(db_tags) ==
    IF Truthy(db_tags)
    THEN { db_tags[1][i].word :
             i \in {j \in 1..Len(db_tags[1]) : db_tags[1][j].word # <<>>} }
    ELSE {}

\* all_tags = list(set(content_tags + db_tag_list)): a list without repeats
\* whose order is the set's iteration order
all_tags(content, db_tags) ==
    Orderings(_extract_tags_from_content(content) \cup db_tag_list(db_tags))

\* DiaryDataLoader.load on a table holding one row
LoadCall ==
    /\ last = NoCall
    /\ \E content \in TokenTexts : \E db_tags \in TagColumns :
         \E tags \in all_tags(content, db_tags) :
           last' = [op |-> "load", content |-> content, db_tags |-> db_tags,
                    tags |-> tags]
    /\ UNCHANGED <<now, tz, db, nextId, coll, syncFile, autoSync, run>>

\* DiaryDataLoader.load once more on the same row
LoadAgain ==
    /\ last.op = "load"
    /\ \E tags \in all_tags(last.content, last.db_tags) :
         last' = [last EXCEPT !.tags = tags]
    /\ UNCHANGED <<now, tz, db, nextId, coll, syncFile, autoSync, run>>

NextTags == LoadCall \/ LoadAgain

SpecTags == InitUTC /\ [][NextTags]_vars

\* ---------------------------------------------------------------- retrieval
max_retrieval_docs == 5

FastDocs == 3

\* A metadata filter is a dict of key/value constraints; filter arguments are
\* None or a dict, possibly the empty one.
Constraints ==
    {[key |-> "entry_id", value |-> IntVal(1)],
     [key |-> "chunk_index", value |-> IntVal(0)]}

FilterDicts ==
    {<<>>} \cup {<<c>> : c \in Constraints}
           \cup {<<[key |-> "entry_id", value |-> IntVal(1)],
                   [key |-> "chunk_index", value |-> IntVal(0)]>>}

FilterArgs == {None} \cup {<<d>> : d \in FilterDicts}

KArgs == {None, <<1>>, <<2>>}

\* A stored chunk meets one constraint of a filter
Meets(m, c) ==
    IF c.key = "entry_id" THEN m.entry_id = c.value
    ELSE IntVal(m.chunk_index) = c.value

\* A stored chunk meets every constraint of a filter dict
Satisfies(m, d) == \A i \in 1..Len(d) : Meets(m, d[i])

\* The objects DiaryRAGSystem._setup_vector_store can leave in
\* self.vector_store: the Chroma handle of the user's collection, or None when
\* opening it raised.
VectorStores(u) == {None, <<collection_name(u)>>}

\* Chroma.similarity_search(query, k, filter): the call raises, or returns the
\* k best of the chunks that meet the filter (all of them when there are fewer)
\* ; which ones are best depends on the query.
similarity_search(store, d, k) ==
    LET found == {m \in BagToSet(coll[store[1]]) : Satisfies(m, d)}
        n == Min(k, Cardinality(found))
    IN {[raised |-> TRUE, docs |-> {}]}
         \cup {[raised |-> FALSE, docs |-> S] :
                 S \in {T \in SUBSET found : Cardinality(T) = n}}

\* retrieve_relevant_entries without its try/except.
retrieve_relevant_entries_unguarded(store, filters, k) ==
    IF store = None
    THEN {[raised |-> FALSE, docs |-> {}, failed |-> FALSE]}
    ELSE {[raised |-> r.raised, docs |-> r.docs, failed |-> r.raised] :
            r \in similarity_search(store,
                      IF filters # None /\ filters[1] # <<>>
                          THEN filters[1] ELSE <<>>,
                      IF k # None THEN k[1]
                      ELSE Min(max_retrieval_docs, FastDocs))}

\* DiaryRAGSystem.retrieve_relevant_entries: what the call can return, and
\* whether the search raised inside it
retrieve_relevant_entries(store, filters, k) ==
    IF store = None
    THEN {[raised |-> FALSE, docs |-> {}, failed |-> FALSE]}
    ELSE {[raised |-> FALSE, docs |-> r.docs, failed |-> r.raised] :
            r \in similarity_search(store,
                      IF filters # None /\ filters[1] # <<>>
                          THEN filters[1] ELSE <<>>,
                      IF k # None THEN k[1]
                      ELSE Min(max_retrieval_docs, FastDocs))}

\* DiaryRAGSystem.generate_response: the chunks that make the context of the
\* answer.  The fallback chain and the error message use none; the RAG chain
\* asks its own retriever, built by _setup_conversation_chain with
\* search_kwargs = {"k": max_retrieval_docs}.
generate_response(store, filters, use_fallback) ==
    IF use_fallback \/ store = None
    THEN {[raised |-> FALSE, docs |-> {}, chain |-> "fallback"]}
    ELSE UNION {
           IF relevant.docs = {}
           THEN {[raised |-> FALSE, docs |-> {}, chain |-> "fallback"]}
           ELSE {IF r.raised
                 THEN [raised |-> FALSE, docs |-> {}, chain |-> "error"]
                 ELSE [raised |-> FALSE, docs |-> r.docs, chain |-> "rag"] :
                   r \in similarity_search(store, <<>>, max_retrieval_docs)} :
           relevant \in retrieve_relevant_entries(store, filters, None)}

\* DiaryRAGSystem.generate_contextual_response: generate_response on the
\* query prefixed with the conversation so far
generate_contextual_response(store, filters) ==
    generate_response(store, filters, FALSE)

RetrieveCall(u) ==
    /\ \E store \in VectorStores(u) : \E filters \in FilterArgs :
         \E k \in KArgs :
           \E r \in retrieve_relevant_entries(store, filters, k) :
             last' = [op |-> "retrieve_relevant_entries", user |-> u,
                      store |-> store, filters |-> filters,
                      raised |-> r.raised, docs |-> r.docs,
                      failed |-> r.failed]
    /\ UNCHANGED <<now, tz, db, nextId, coll, syncFile, autoSync, run>>

GenerateResponseCall(u) ==
    /\ \E store \in VectorStores(u) : \E filters \in FilterArgs :
         \E use_fallback \in BOOLEAN :
           \E r \in generate_response(store, filters, use_fallback) :
             last' = [op |-> "generate_response", user |-> u,
                      store |-> store, filters |-> filters,
                      raised |-> r.raised, docs |-> r.docs]
    /\ UNCHANGED <<now, tz, db, nextId, coll, syncFile, autoSync, run>>

GenerateContextualResponseCall(u) ==
    /\ \E store \in VectorStores(u) : \E filters \in FilterArgs :
         \E r \in generate_contextual_response(store, filters) :
           last' = [op |-> "generate_contextual_response", user |-> u,
                    store |-> store, filters |-> filters,
                    raised |-> r.raised, docs |-> r.docs]
    /\ UNCHANGED <<now, tz, db, nextId, coll, syncFile, autoSync, run>>

\* One user's entries are saved and indexed by runs that succeed, and the
\* chatbot queries the collection in between.
NextRag ==
    \/ submit_text_to_database_direct(Alice)
    \/ IncrLoad(Alice)
    \/ EmbedBatchOk(Alice)
    \/ SaveWatermark(Alice)
    \/ RetrieveCall(Alice)
    \/ GenerateResponseCall(Alice)
    \/ GenerateContextualResponseCall(Alice)

SpecRag == InitUTC /\ [][NextRag]_vars

\* ------------------------------------------------------- indexed chunk text
\* The texts entries are written with here: at most one whitespace character
\* in front, at most one visible character, or a long text without whitespace
\* around it.
EntryTexts ==
    {t \in Texts : \/ t.lead <= 1 /\ t.core <= 1
                   \/ t.lead = 0 /\ t.core = MaxTextLen - 1 /\ t.trail = 0}

\* submit_text_to_database_direct with the text of the entry kept: the content
\* is the "Title: ...\nContent: ..." envelope around the text or the text
\* itself, and a content that is blank as a whole is rejected.
submit_entry_text(u) ==
    /\ TotalRows < MaxEntries
    /\ \E envelope \in BOOLEAN : \E t \in EntryTexts :
          /\ envelope \/ t.core > 0
          /\ db' = [db EXCEPT ![user_db_path(u)] =
                      @ \cup {[id |-> nextId[user_db_path(u)],
                               created_at |-> SqlFormat(now),
                               content |-> [envelope |-> envelope,
                                            text |-> t]]}]
    /\ nextId' = [nextId EXCEPT ![user_db_path(u)] = @ + 1]
    /\ UNCHANGED <<now, tz, coll, syncFile, autoSync, run, last>>

\* DiaryChunk.from_entry_and_text with the chunk text kept
from_entry_and_chunk_text(e, texts) ==
    [i \in 1..Len(texts) |->
        [entry_id |-> IntVal(e.id), chunk_index |-> i - 1, text |-> texts[i]]]

\* The body of the loop of IndexingOrchestrator.process_entries: the chunk
\* lists one entry can give
process_entry(e) ==
    {from_entry_and_chunk_text(e, texts) :
       texts \in split_diary_entry(e.content.envelope, e.content.text)}

RECURSIVE process_entry_texts(_)
\* IndexingOrchestrator.process_entries with the chunk texts kept: the chunk
\* lists it can return
process_entry_texts(entries) ==
    IF entries = <<>> THEN {<<>>}
    ELSE {first \o rest : first \in process_entry(Head(entries)),
                          rest \in process_entry_texts(Tail(entries))}

\* run_incremental_indexing from start to end, the vector store working:
\* False when there is nothing to embed, else the chunks are stored and the
\* watermark is saved.
IndexEntryTexts(u) ==
    LET rows == orchestrator_load_incremental_entries(u)
    IN /\ rows # {}
       /\ \E order \in Orderings(rows) :
            \E chunks \in process_entry_texts(order) :
              IF chunks = <<>>
              THEN /\ last' = RunResult(u, "incr", "failed")
                   /\ UNCHANGED <<coll, syncFile>>
              ELSE /\ TotalChunks + Len(chunks) <= MaxColl
                   /\ embed_and_store_documents(u, chunks)
                   /\ save_last_sync(u, _compute_latest_timestamp(order))
                   /\ last' = RunResult(u, "incr", "ok")
       /\ UNCHANGED <<now, tz, db, nextId, autoSync, run>>

NextText ==
    \/ Tick
    \/ submit_entry_text(Alice)
    \/ IndexEntryTexts(Alice)

SpecText == Init /\ [][NextText]_vars

\* ------------------------------------------------------- pipeline statuses
MaxDocs == 3

\* range(0, n, batch_size): the number of batches of n documents
NumBatches(n) == (n + batch_size - 1) \div batch_size

\* The documents of batch b (1-based) of n documents
BatchLen(n, b) == Min(batch_size, n - (b - 1) * batch_size)

RECURSIVE StoredUpTo(_, _, _)
\* The ids gathered from the batches 1..b whose call returned
StoredUpTo(n, oks, b) ==
    IF b = 0 THEN 0
    ELSE StoredUpTo(n, oks, b - 1) + (IF oks[b] THEN BatchLen(n, b) ELSE 0)

\* DiaryEmbeddingAndStorage.batch_process_documents: oks[b] tells whether
\* embed_and_store_documents returns for batch b or raises; a batch that
\* raises is logged and skipped.
batch_process_documents(n, oks) ==
    [raised |-> FALSE, ids |-> StoredUpTo(n, oks, NumBatches(n))]

\* DiaryIndexingPipeline.embed_and_store: one call for up to batch_size
\* documents, batch_process_documents for more; an exception is logged and
\* raised again.
pipeline_embed_and_store(n, oks) ==
    IF n > batch_size THEN batch_process_documents(n, oks)
    ELSE IF oks[1] THEN [raised |-> FALSE, ids |-> n]
    ELSE [raised |-> TRUE, ids |-> 0]

\* DiaryIndexingPipeline.run_full_pipeline: loaded documents come from
\* load_diary_data (which raises when load_ok is false), kept of them survive
\* preprocessing, n chunks come out of the splitter.
run_full_pipeline(load_ok, loaded, kept, n, oks) ==
    IF ~load_ok
    THEN [status |-> "failed", errors |-> <<"exception">>,
          raised |-> FALSE, documents_stored |-> 0]
    ELSE IF loaded = 0
    THEN [status |-> "completed_with_warnings",
          errors |-> <<"No documents found to process">>,
          raised |-> FALSE, documents_stored |-> 0]
    ELSE IF kept = 0
    THEN [status |-> "failed",
          errors |-> <<"No documents survived preprocessing">>,
          raised |-> FALSE, documents_stored |-> 0]
    ELSE LET r == pipeline_embed_and_store(n, oks)
         IN IF r.raised
            THEN [status |-> "failed", errors |-> <<"exception">>,
                  raised |-> FALSE, documents_stored |-> 0]
            ELSE [status |-> "completed_successfully", errors |-> <<>>,
                  raised |-> FALSE, documents_stored |-> r.ids]

\* One call of run_full_pipeline on a table of `loaded` rows.  Every kept
\* document gives one chunk or LongChunks chunks; an empty chunk list never
\* reaches the vector store (embed_and_store_documents returns [] for it).
RunFullPipelineCall ==
    /\ \E load_ok \in BOOLEAN : \E loaded \in 0..MaxDocs :
         \E kept \in 0..loaded : \E n \in kept..(kept * LongChunks) :
           \E oks \in [1..NumBatches(n) -> BOOLEAN] :
             last' = [op |-> "run_full_pipeline", loaded |-> loaded,
                      kept |-> kept, chunks |-> n, load_ok |-> load_ok,
                      oks |-> oks,
                      result |-> run_full_pipeline(load_ok, loaded, kept,
                                                   n, oks)]
    /\ UNCHANGED <<now, tz, db, nextId, coll, syncFile, autoSync, run>>

NextPipe == RunFullPipelineCall

SpecPipe == InitUTC /\ [][NextPipe]_vars

\* ------------------------------------------------------ orchestrator set-up
\* Here db maps the database files that exist to their content: a user
\* database to its set of rows, the shared fallback database to its schema
\* (with or without the user_id column) and its rows.
MaxShared == 2

MaxMigrated == 4

\* IndexingConfig.fallback_db_path: f"{base_db_path}/diary.db"
fallback_db_path == <<"shared", 0, "diary.db">>

InitSetup ==
    /\ now = 1
    /\ tz = 0
    /\ db = [p \in {} |-> {}]
    /\ nextId = [p \in DbPaths \cup {fallback_db_path} |-> 1]
    /\ coll = [c \in CollNames |-> EmptyBag]
    /\ syncFile = [p \in SyncPaths |-> None]
    /\ autoSync = [p \in AutoSyncPaths |-> None]
    /\ run = [u \in Users |-> Idle]
    /\ last = NoCall

\* fast_api_v3: init_diary_db creates the shared database with the user_id
\* column, or adds the column (DEFAULT 1) to a table that lacks it;
\* create_diary_entry inserts a row of the authenticated user.
create_diary_entry(u) ==
    /\ nextId[fallback_db_path] <= MaxShared
    /\ \E c \in Contents :
         LET old == IF fallback_db_path \in DOMAIN db
                    THEN {IF db[fallback_db_path].has_user_id THEN r
                          ELSE [r EXCEPT !.user_id = 1] :
                            r \in db[fallback_db_path].rows}
                    ELSE {}
             row == [id |-> nextId[fallback_db_path], user_id |-> u,
                     created_at |-> SqlFormat(now), content |-> c]
         IN db' = [p \in DOMAIN db \cup {fallback_db_path} |->
                     IF p = fallback_db_path
                     THEN [has_user_id |-> TRUE, rows |-> old \cup {row}]
                     ELSE db[p]]
    /\ nextId' = [nextId EXCEPT ![fallback_db_path] = @ + 1]
    /\ last' = [op |-> "create_diary_entry", user |-> u]
    /\ UNCHANGED <<now, tz, coll, syncFile, autoSync, run>>

\* create_db.py and fast_api.py: the shared database of the first version,
\* whose table has no user_id column (kept as user_id 0 here).
legacy_submit_diary ==
    /\ nextId[fallback_db_path] <= MaxShared
    /\ fallback_db_path \in DOMAIN db => ~db[fallback_db_path].has_user_id
    /\ \E c \in Contents :
         LET old == IF fallback_db_path \in DOMAIN db
                    THEN db[fallback_db_path].rows ELSE {}
             row == [id |-> nextId[fallback_db_path], user_id |-> 0,
                     created_at |-> SqlFormat(now), content |-> c]
         IN db' = [p \in DOMAIN db \cup {fallback_db_path} |->
                     IF p = fallback_db_path
                     THEN [has_user_id |-> FALSE, rows |-> old \cup {row}]
                     ELSE db[p]]
    /\ nextId' = [nextId EXCEPT ![fallback_db_path] = @ + 1]
    /\ last' = [op |-> "legacy_submit_diary"]
    /\ UNCHANGED <<now, tz, coll, syncFile, autoSync, run>>

\* ensure_database_exists: nothing when the file exists, else the file with an
\* empty diary_entries table
ensure_database_exists(d, u) ==
    [p \in DOMAIN d \cup {user_db_path(u)} |->
        IF p \in DOMAIN d THEN d[p] ELSE {}]

\* migrate_user_data: the rows its SELECT returns
SelectedForMigration(d, u) ==
    IF fallback_db_path \notin DOMAIN d THEN {}
    ELSE IF d[fallback_db_path].has_user_id
    THEN {r \in d[fallback_db_path].rows : r.user_id = u}
    ELSE IF u = 1 THEN d[fallback_db_path].rows
    ELSE {}

\* The rows inserted for the selected rows, in rowid order, the first one
\* under the id `start`; the table has no key but id, so INSERT OR IGNORE
\* ignores nothing.
InsertedRows(rows, start) ==
    {[id |-> start + Cardinality({x \in rows : x.id < r.id}),
      created_at |-> r.created_at, content |-> r.content] : r \in rows}

\* migrate_user_data: the databases after a migration that commits
migrate_user_data(d, u) ==
    [d EXCEPT ![user_db_path(u)] =
        @ \cup InsertedRows(SelectedForMigration(d, u),
                            nextId[user_db_path(u)])]

\* IndexingOrchestrator.__init__: DiaryRepository (ensure_database_exists,
\* then migrate_user_data, whose exceptions are logged and dropped), then
\* SyncStateStore and DiaryTextSplitter, then DiaryEmbeddingAndStorage, which
\* raises ValueError when no API key is given and none is in the environment.
OrchestratorInit(u) ==
    /\ \E api_key \in BOOLEAN : \E migrates \in BOOLEAN :
         LET created == ensure_database_exists(db, u)
             after == IF migrates THEN migrate_user_data(created, u)
                      ELSE created
             added == Cardinality(after[user_db_path(u)])
                        - Cardinality(created[user_db_path(u)])
         IN /\ nextId[user_db_path(u)] + added - 1 <= MaxMigrated
            /\ db' = after
            /\ nextId' = [nextId EXCEPT ![user_db_path(u)] = @ + added]
            /\ last' = [op |-> "IndexingOrchestrator", user |-> u,
                        raised |-> ~api_key, migrated |-> migrates]
    /\ UNCHANGED <<now, tz, coll, syncFile, autoSync, run>>

NextSetup ==
    \/ legacy_submit_diary
    \/ \E u \in Users : create_diary_entry(u)
    \/ \E u \in Users : OrchestratorInit(u)

SpecSetup == InitSetup /\ [][NextSetup]_vars

\* --------------------------------------------------- runs that keep running
\* run_full_reindexing, first step, the vector store working
FullClearOk(u) == FullClear(u) /\ run'[u].cleared

\* One user's entries and indexing runs, the host in UTC and the vector store
\* always working: every run that starts goes on to its end, and incremental
\* runs are started again and again.
NextLive ==
    \/ Tick
    \/ submit_text_to_database_direct(Alice)
    \/ IncrLoad(Alice)
    \/ FullClearOk(Alice)
    \/ FullLoad(Alice)
    \/ EmbedBatchOk(Alice)
    \/ SaveWatermark(Alice)

SpecLive ==
    /\ InitUTC
    /\ [][NextLive]_vars
    /\ WF_vars(IncrLoad(Alice))
    /\ WF_vars(FullLoad(Alice))
    /\ WF_vars(EmbedBatchOk(Alice))
    /\ WF_vars(SaveWatermark(Alice))

\* ---------------------------------------------------------------- auto sync
\* AutoSyncManager.get_last_sync_time, and the week-old default that
\* get_changed_entries uses without one
SyncSince(u) ==
    IF autoSync[auto_sync_file(u)] = None
    THEN LocalNow - SevenDays * TicksPerDay
    ELSE fromisoformat(autoSync[auto_sync_file(u)])

\* AutoSyncManager.auto_index_new_entries(entries), entries non-empty: True at
\* once without an API key; else run_incremental_indexing, which stores the
\* chunks of the rows it loads itself and saves its watermark when it
\* succeeds (indexed), and changes neither when it fails.
auto_index_new_entries(u, api_key, indexed) ==
    LET rows == orchestrator_load_incremental_entries(u)
    IN IF ~api_key \/ ~indexed \/ rows = {}
       THEN UNCHANGED <<coll, syncFile>>
       ELSE \E order \in Orderings(rows) :
              LET chunks == process_entries(order)
              IN /\ TotalChunks + Len(chunks) <= MaxColl
                 /\ embed_and_store_documents(u, chunks)
                 /\ save_last_sync(u, _compute_latest_timestamp(order))

\* AutoSyncManager.run_sync: with no new entry only the timestamp is
\* updated; a failed auto_index_new_entries raises RuntimeError, which skips
\* update_last_sync_time.
run_sync(u) ==
    /\ \E api_key \in BOOLEAN : \E indexed \in BOOLEAN :
         LET new_entries ==
               get_changed_entries(db[user_db_path(u)], SyncSince(u))
             index_success == new_entries = {} \/ ~api_key \/ indexed
         IN /\ IF new_entries = {} THEN UNCHANGED <<coll, syncFile>>
               ELSE auto_index_new_entries(u, api_key, indexed)
            /\ IF index_success THEN update_last_sync_time(u)
               ELSE UNCHANGED autoSync
            /\ last' = [op |-> "run_sync", user |-> u,
                        new_entries |-> {e.id : e \in new_entries},
                        index_success |-> index_success]
    /\ UNCHANGED <<now, tz, db, nextId, run>>

\* AutoSyncManager.perform_auto_sync: a failed auto_index_new_entries adds a
\* line to results['errors']; update_last_sync_time() follows in every case.
perform_auto_sync(u) ==
    /\ \E api_key \in BOOLEAN : \E indexed \in BOOLEAN :
         LET new_entries ==
               get_changed_entries(db[user_db_path(u)], SyncSince(u))
             index_success == new_entries = {} \/ ~api_key \/ indexed
         IN /\ IF new_entries = {} THEN UNCHANGED <<coll, syncFile>>
               ELSE auto_index_new_entries(u, api_key, indexed)
            /\ update_last_sync_time(u)
            /\ last' = [op |-> "perform_auto_sync", user |-> u,
                        new_entries |-> {e.id : e \in new_entries},
                        index_success |-> index_success]
    /\ UNCHANGED <<now, tz, db, nextId, run>>

NextAuto ==
    \/ Tick
    \/ submit_text_to_database_direct(Alice)
    \/ run_sync(Alice)
    \/ perform_auto_sync(Alice)

SpecAuto == Init /\ [][NextAuto]_vars

\* ------------------------------------------------------------ sessions
\* The authentication database file of UserAuthManager.
auth_db_path == <<"user_db", 0, "auth.db">>

MaxSessions == 3

\* secrets.token_urlsafe(32): any value of the token space, not known to be new
TokenSpace == 1..MaxSessions

\* timedelta(hours=24)
session_timeout == TicksPerDay

\* _init_auth_database(): the user_sessions table exists and is empty.
InitAuth ==
    /\ now = 1
    /\ tz \in TZOffsets
    /\ db = [p \in {auth_db_path} |-> {}]
    /\ nextId = [p \in {auth_db_path} |-> 1]
    /\ coll = [c \in CollNames |-> EmptyBag]
    /\ syncFile = [p \in SyncPaths |-> None]
    /\ autoSync = [p \in AutoSyncPaths |-> None]
    /\ run = [u \in Users |-> Idle]
    /\ last = NoCall

user_sessions == db[auth_db_path]

\* UPDATE user_sessions SET is_active = 0 WHERE user_id = ?
deactivate_user(rows, u) ==
    {IF r.user_id = u THEN [r EXCEPT !.is_active = FALSE] ELSE r : r \in rows}

\* UPDATE user_sessions SET is_active = 0 WHERE session_token = ?
deactivate_token(rows, token) ==
    {IF r.session_token = token THEN [r EXCEPT !.is_active = FALSE] ELSE r
       : r \in rows}

\* INSERT INTO user_sessions (user_id, session_token, expires_at); the column
\* is_active takes its default 1, the datetime is stored as its str() text.
new_session(u, token) ==
    [id |-> nextId[auth_db_path], user_id |-> u, session_token |-> token,
     expires_at |-> SqlFormat(LocalNow + session_timeout), is_active |-> TRUE]

\* session_token is UNIQUE: the INSERT of a token already in the table raises
\* and the uncommitted UPDATE is rolled back with it.
TokenTaken(token) == \E r \in user_sessions : r.session_token = token

\* A login that inserts the new session and leaves the older ones active.
login_user_keep_old(u) ==
    /\ nextId[auth_db_path] <= MaxSessions
    /\ \E valid \in BOOLEAN, token \in TokenSpace :
         IF valid /\ ~TokenTaken(token)
         THEN /\ db' = [db EXCEPT ![auth_db_path] =
                          user_sessions \cup {new_session(u, token)}]
              /\ nextId' = [nextId EXCEPT ![auth_db_path] = @ + 1]
              /\ last' = [op |-> "login_user", user |-> u, success |-> TRUE,
                          session_token |-> token]
         ELSE /\ UNCHANGED <<db, nextId>>
              /\ last' = [op |-> "login_user", user |-> u, success |-> FALSE,
                          session_token |-> 0]
    /\ UNCHANGED <<now, tz, coll, syncFile, autoSync, run>>

\* login_user(): wrong credentials change nothing; otherwise the user's
\* sessions are deactivated and the new one inserted in one transaction.
login_user(u) ==
    /\ nextId[auth_db_path] <= MaxSessions
    /\ \E valid \in BOOLEAN, token \in TokenSpace :
         IF valid /\ ~TokenTaken(token)
         THEN /\ db' = [db EXCEPT ![auth_db_path] =
                          deactivate_user(user_sessions, u)
                            \cup {new_session(u, token)}]
              /\ nextId' = [nextId EXCEPT ![auth_db_path] = @ + 1]
              /\ last' = [op |-> "login_user", user |-> u, success |-> TRUE,
                          session_token |-> token]
         ELSE /\ UNCHANGED <<db, nextId>>
              /\ last' = [op |-> "login_user", user |-> u, success |-> FALSE,
                          session_token |-> 0]
    /\ UNCHANGED <<now, tz, coll, syncFile, autoSync, run>>

\* create_session(): the same two statements without the credential check;
\* returns the token, or None when a statement raised.
create_session(u) ==
    /\ nextId[auth_db_path] <= MaxSessions
    /\ \E token \in TokenSpace :
         IF ~TokenTaken(token)
         THEN /\ db' = [db EXCEPT ![auth_db_path] =
                          deactivate_user(user_sessions, u)
                            \cup {new_session(u, token)}]
              /\ nextId' = [nextId EXCEPT ![auth_db_path] = @ + 1]
              /\ last' = [op |-> "create_session", user |-> u,
                          success |-> TRUE, session_token |-> token]
         ELSE /\ UNCHANGED <<db, nextId>>
              /\ last' = [op |-> "create_session", user |-> u,
                          success |-> FALSE, session_token |-> 0]
    /\ UNCHANGED <<now, tz, coll, syncFile, autoSync, run>>

\* validate_session(): only an active row of the token is looked at; a row
\* found expired is deactivated and the token refused.
validate_session(token) ==
    /\ LET found == {r \in user_sessions :
                       r.session_token = token /\ r.is_active}
       IN  IF found = {}
           THEN /\ UNCHANGED db
                /\ last' = [op |-> "validate_session", session_token |-> token,
                            accepted |-> FALSE, expired |-> FALSE]
           ELSE LET r == CHOOSE x \in found : TRUE
                IN  IF LocalNow > fromisoformat(r.expires_at)
                    THEN /\ db' = [db EXCEPT ![auth_db_path] =
                                     deactivate_token(user_sessions, token)]
                         /\ last' = [op |-> "validate_session",
                                     session_token |-> token,
                                     accepted |-> FALSE, expired |-> TRUE]
                    ELSE /\ UNCHANGED db
                         /\ last' = [op |-> "validate_session",
                                     session_token |-> token,
                                     accepted |-> TRUE, expired |-> FALSE]
    /\ UNCHANGED <<now, tz, nextId, coll, syncFile, autoSync, run>>

\* logout_user(): deactivates the token's row.
logout_user(token) ==
    /\ db' = [db EXCEPT ![auth_db_path] =
                deactivate_token(user_sessions, token)]
    /\ last' = [op |-> "logout_user", session_token |-> token]
    /\ UNCHANGED <<now, tz, nextId, coll, syncFile, autoSync, run>>

NextAuth ==
    \/ Tick
    \/ \E u \in Users : login_user(u)
    \/ \E u \in Users : create_session(u)
    \/ \E token \in TokenSpace : validate_session(token)
    \/ \E token \in TokenSpace : logout_user(token)

SpecAuth == InitAuth /\ [][NextAuth]_vars

\* ------------------------------------------------- configured chunk size
\* IndexingConfig.chunk_size, which the orchestrator hands to DiaryTextSplitter
config_chunk_size == 800

\* The chunk sizes a splitter is built with: the constructor default and the
\* orchestrator's.
ChunkSizes == {chunk_size, config_chunk_size}

\* One piece RecursiveCharacterTextSplitter(chunk_size = c).split_text can
\* return: the separator list ends with "", so no piece is longer than c.
ConfiguredPieces(c, t) == { [lead |-> 0, core |-> m, trail |-> 0] :
                              m \in {1, Min(t.core, c)} }

\* self.text_splitter.split_text(content) of a splitter built with c
configured_split_text(c, t) ==
    IF t.core = 0 THEN {<<>>}
    ELSE UNION { [1..n -> ConfiguredPieces(c, t)] : n \in 1..LongChunks }

\* DiaryTextSplitter(chunk_size = c).split_documents on one document: the
\* threshold of _should_split_entry does not depend on c.
configured_split_documents(c, t) ==
    IF ~_should_split_entry(t) THEN {<<t>>} ELSE configured_split_text(c, t)

ConfiguredSplitCall ==
    /\ last = NoCall
    /\ \E c \in ChunkSizes : \E t \in Texts :
         \E chunks \in configured_split_documents(c, t) :
           last' = [op |-> "configured_split", chunk_size |-> c, text |-> t,
                    chunks |-> chunks]
    /\ UNCHANGED <<now, tz, db, nextId, coll, syncFile, autoSync, run>>

NextChunk == ConfiguredSplitCall

SpecChunk == InitUTC /\ [][NextChunk]_vars

\* ------------------------------------------------------------ properties
Range(s) == {s[i] : i \in 1..Len(s)}

\* The run of user u is an incremental run past its load.
IncrementalInFlight(u) ==
    run[u].pc \in {"embed", "save"} /\ run[u].kind = "incr"

\* C1: when embed_and_store fails during an incremental run, the sync state
\* after the run is what it was when the run started, and the next
\* incremental run loads the same entries again.
C1_WatermarkKeptOnEmbedFailure ==
    [][\A u \in Users :
          EmbedBatchFail(u) /\ run[u].kind = "incr" =>
              /\ syncFile'[_get_sync_file_path(u)] = run[u].pre
              /\ Range(run[u].entries)
                     \subseteq orchestrator_load_incremental_entries(u)']_vars

\* An incremental run that had a watermark to start from has just failed in
\* embed_and_store.
C1_Witness ==
    /\ last = RunResult(Alice, "incr", "embed_failed")
    /\ run[Alice].pc = "idle"
    /\ get_last_sync(Alice) # None
    /\ orchestrator_load_incremental_entries(Alice) # {}

\* C2: in an incremental run the sync state is written only by the final
\* step, after every batch of the run has been stored; until then, and when
\* the run is killed, the stored watermark is the pre-run value, and the
\* value written covers only entries whose chunks are in the collection.
C2_WatermarkAfterAllWrites ==
    [][\A u \in Users :
          /\ IncrementalInFlight(u) =>
                 syncFile[_get_sync_file_path(u)] = run[u].pre
          /\ IncrementalInFlight(u) /\ Crash(u) =>
                 syncFile'[_get_sync_file_path(u)] = run[u].pre
          /\ IncrementalInFlight(u)
                /\ syncFile'[_get_sync_file_path(u)]
                       # syncFile[_get_sync_file_path(u)] =>
                 /\ SaveWatermark(u)
                 /\ run[u].i >= Len(process_entries(run[u].entries))
                 /\ \A k \in Range(process_entries(run[u].entries)) :
                        CopiesIn(k, coll[collection_name(u)]) >= 1]_vars

\* An incremental run has stored its first batch and has more to store; the
\* watermark is still the pre-run value.
C2_Witness ==
    /\ IncrementalInFlight(Alice)
    /\ run[Alice].pc = "embed"
    /\ run[Alice].i > 0
    /\ syncFile[_get_sync_file_path(Alice)] = run[Alice].pre

\* The entries the run of user u holds after its load step (none when the
\* run found nothing to do and returned).
Loaded(u) == IF run[u].pc = "embed" THEN Range(run[u].entries) ELSE {}

\* The rows of user u created strictly after instant w.
CreatedAfter(u, w) ==
    {e \in db[user_db_path(u)] : fromisoformat(e.created_at) > w}

\* C3: with a watermark W stored, an incremental run loads exactly the
\* user's entries whose created_at is strictly greater than W.
C3_LoadsExactlyEntriesAfterWatermark ==
    [][\A u \in Users :
          IncrLoad(u) /\ get_last_sync(u) # None =>
              Loaded(u)' = CreatedAfter(u, get_last_sync(u)[1])]_vars

\* The run of user u is an incremental run that started without sync state.
FirstIncremental(u) ==
    IncrementalInFlight(u) /\ run[u].pre = None

\* C4: an incremental run without sync state loads every entry of the user,
\* removes nothing from the user's collection, has chunks of every loaded
\* entry in the collection when it succeeds, and then sets the watermark to
\* the maximum created_at of the entries it processed.
C4_FirstIncrementalIsAdditiveFullLoad ==
    [][\A u \in Users :
          /\ IncrLoad(u) /\ get_last_sync(u) = None =>
                 /\ Loaded(u)' = load_all_entries(u)
                 /\ coll' = coll
          /\ FirstIncremental(u) =>
                 \A m \in BagToSet(coll[collection_name(u)]) :
                    CopiesIn(m, coll'[collection_name(u)])
                       >= CopiesIn(m, coll[collection_name(u)])
          /\ FirstIncremental(u) /\ SaveWatermark(u) =>
                 /\ \A e \in Range(run[u].entries) :
                       \A i \in 0..(SplitCount(e.content) - 1) :
                          CopiesIn(from_entry_and_text(e, i),
                                   coll'[collection_name(u)]) >= 1
                 /\ get_last_sync(u)' # None
                 /\ \A e \in Range(run[u].entries) :
                       fromisoformat(e.created_at) <= get_last_sync(u)'[1]
                 /\ \E e \in Range(run[u].entries) :
                       fromisoformat(e.created_at) = get_last_sync(u)'[1]]_vars

\* An incremental run without sync state has stored the chunks of two
\* entries created at different instants, in a collection that already held
\* chunks, and is about to set the watermark.
C4_Witness ==
    /\ FirstIncremental(Alice)
    /\ run[Alice].pc = "save"
    /\ \E e1, e2 \in Range(run[Alice].entries) :
           e1.created_at # e2.created_at
    /\ BagCardinality(coll[collection_name(Alice)])
          > Len(process_entries(run[Alice].entries))

\* User a takes a step: saves an entry, moves an indexing run forward, or
\* deletes chunks.
StepOf(a) ==
    \/ submit_text_to_database_direct(a)
    \/ RunStep(a)
    \/ DeleteByEntryId(a)
    \/ auto_remove_deleted_entries(a)

\* The step changes the chunk count or content of user b's collection,
\* b's watermark, or b's entries.
StoresChange(b) ==
    \/ BagCardinality(coll'[collection_name(b)])
          # BagCardinality(coll[collection_name(b)])
    \/ coll'[collection_name(b)] # coll[collection_name(b)]
    \/ get_last_sync(b)' # get_last_sync(b)
    \/ db'[user_db_path(b)] # db[user_db_path(b)]

\* C5: the database path, collection name and sync file of two different
\* users differ, and a step taken for user a leaves the collection (so its
\* chunk count), the watermark and the entries of every other user b
\* unchanged: a step that changes any of them for b is no step of a.
C5_UserIsolation ==
    [][\A a, b \in Users :
          a # b =>
             /\ user_db_path(a) # user_db_path(b)
             /\ collection_name(a) # collection_name(b)
             /\ _get_sync_file_path(a) # _get_sync_file_path(b)
             /\ StoresChange(b) => ~StepOf(a)]_vars

\* Both users have an entry and a watermark; one still has its chunks
\* while the other has just deleted chunks from its own collection.
C5_Witness ==
    /\ \A u \in Users :
          /\ get_last_sync(u) # None
          /\ db[user_db_path(u)] # {}
    /\ \E a, b \in Users :
          /\ a # b
          /\ BagCardinality(coll[collection_name(a)]) > 0
          /\ last.op = "delete_documents_by_metadata"
          /\ last.user = b
          /\ last.ok
          /\ last.deleted > 0
\* C6: two delete_documents_by_metadata calls in a row with the same
\* entry_id on the same collection both return True, and the second one
\* deletes no chunk.
C6_DeleteTwiceIsNoOp ==
    /\ [](\A u \in Users : \A e \in EntryIds(u) :
            \A v \in {IntVal(e), StrVal(e)} :
               Streak(u, v) = 2 => last.ok /\ last.deleted = 0)
    /\ [][\A u \in Users : \A e \in EntryIds(u) :
             \A v \in {IntVal(e), StrVal(e)} :
                Streak(u, v) >= 1 /\ delete_documents_by_metadata(u, v, FALSE)
                   => coll' = coll /\ last'.ok /\ last'.deleted = 0]_vars

\* The second of two calls in a row has returned; the first had deleted
\* chunks.
C6_Witness ==
    /\ last.op = "delete_documents_by_metadata"
    /\ last.ok
    /\ last.streak = 2
    /\ last.prev > 0

\* Chunks in user u's collection that belong to entry id e, whichever type
\* the stored entry_id has.
ChunksOfEntry(u, e) ==
    CountMatching(coll[collection_name(u)], IntVal(e))
       + CountMatching(coll[collection_name(u)], StrVal(e))

\* C7: once delete_diary_entry has returned (row removed, sync step run),
\* the user's collection holds no chunk of the deleted entry.
C7_DeleteCascadesToChunks ==
    last.op = "delete_diary_entry" /\ run[last.user].pc = "idle" =>
        ChunksOfEntry(last.user, last.id) = 0

\* C8: once the deletion path auto_remove_deleted_entries has returned True
\* for entry id e, the user's collection holds no chunk of entry e,
\* whichever type its stored entry_id has.
C8_DeletionRemovesEveryChunkOfEntry ==
    /\ last.op = "delete_documents_by_metadata"
    /\ last.ok
    /\ last.value[1] = "str"
    => ChunksOfEntry(last.user, last.value[2]) = 0

\* C9: no two chunks stored in a user's collection carry the same
\* (entry_id, chunk_index) pair.
C9_ChunkIdentifiersUnique ==
    \A u \in Users :
       \A m \in BagToSet(coll[collection_name(u)]) :
          CopiesIn(m, coll[collection_name(u)]) = 1

\* C10: every value written to a user's sync file by a successful run is
\* greater than or equal to the value it replaces.
C10_WatermarkMonotonic ==
    [][\A u \in Users :
          SaveWatermark(u) /\ get_last_sync(u) # None =>
              get_last_sync(u)'[1] >= get_last_sync(u)[1]]_vars

\* C11: a user without sync file has no last sync; after save_last_sync(u, t)
\* get_last_sync(u) returns t; after clear_sync_state(u) it returns None
\* again; and neither call changes what get_last_sync returns for another
\* user.
C11_SyncStateRoundTrip ==
    /\ [](\A u \in Users :
            /\ syncFile[_get_sync_file_path(u)] = None
                   => get_last_sync(u) = None
            /\ last.op = "save_last_sync" /\ last.user = u
                   => get_last_sync(u) = <<last.t>>
            /\ last.op = "clear_sync_state" /\ last.user = u
                   => get_last_sync(u) = None)
    /\ [][\A a, b \in Users :
             a # b /\ (SyncSave(a) \/ SyncClear(a))
                => get_last_sync(b)' = get_last_sync(b)]_vars

\* A saved sync state has been cleared while the other user holds one, and
\* before that a value with a time of day had been read back.
C11_Witness ==
    \E a, b \in Users :
       /\ a # b
       /\ last = [op |-> "clear_sync_state", user |-> a]
       /\ get_last_sync(b) # None
       /\ get_last_sync(b)[1] % TicksPerDay # 0

\* A full reindex of user u is in flight whose clear_collection failed.
FullReindexNotCleared(u) ==
    /\ run[u].pc \in {"load", "embed", "save"}
    /\ run[u].kind = "full"
    /\ ~run[u].cleared

\* The run of user u returns True in this step.
ReturnsSuccess(u) ==
    /\ run[u].pc # "idle"
    /\ run'[u].pc = "idle"
    /\ ~Crash(u)
    /\ last' \in {RunResult(u, run[u].kind, "ok"),
                  RunResult(u, run[u].kind, "ok_no_entries")}

\* C12: a full reindex whose clear_collection failed writes no chunk to the
\* collection and does not report success.
C12_FullReindexAbortsOnClearFailure ==
    [][\A u \in Users :
          FullReindexNotCleared(u) =>
              /\ coll'[collection_name(u)] = coll[collection_name(u)]
              /\ ~ReturnsSuccess(u)]_vars

\* C13: when the embed-and-store call of one batch fails, the later batches
\* of the same run are still attempted: the batch loop goes on with the
\* next batch.
C13_BatchLoopContinuesPastFailure ==
    [][\A u \in Users :
          /\ EmbedBatchFail(u)
          /\ run[u].i + batch_size < Len(process_entries(run[u].entries))
          => /\ run'[u].pc = "embed"
             /\ run'[u].i = run[u].i + batch_size]_vars

\* The full reindex of user u returns in this step (it is not killed).
FullReindexReturns(u) ==
    /\ run[u].pc \in {"load", "embed", "save"}
    /\ run[u].kind = "full"
    /\ run'[u].pc = "idle"
    /\ ~Crash(u)

\* C14: every full reindex that completes, with all batches stored, with
\* only some stored, or with no entries at all, leaves the current time as
\* the user's last sync timestamp.
C14_FullReindexAlwaysUpdatesTimestamp ==
    [][\A u \in Users :
          FullReindexReturns(u) => get_last_sync(u)' = <<LocalNow>>]_vars

\* C15: incremental runs of one user started concurrently do not interleave
\* their loads, batch writes and watermark updates: with every run
\* succeeding, no chunk of an entry is stored twice and no watermark write
\* lowers the stored watermark.
C15_ConcurrentRunsSerialized ==
    /\ [](\A u \in Users :
            \A m \in BagToSet(coll[collection_name(u)]) :
               CopiesIn(m, coll[collection_name(u)]) = 1)
    /\ [][\A u \in Users :
             get_last_sync(u) # None /\ get_last_sync(u)' # None
                => get_last_sync(u)'[1] >= get_last_sync(u)[1]]_vars

\* C16: _filter_metadata(_filter_metadata(x)) equals _filter_metadata(x) for
\* every metadata dictionary x.
C16_CoercionIdempotent ==
    last.op = "_filter_metadata" =>
        DictItems(_filter_metadata(last.filtered)) = DictItems(last.filtered)

\* A dictionary with a non-empty list and a value of another kind has been
\* filtered, and its result filtered again.
C16_Witness ==
    /\ last.op = "_filter_metadata"
    /\ last.metadata = _filter_metadata(
           <<[key |-> <<"tags">>,
              value |-> MetaList(<<MetaStr(<<"x">>), <<"int", 1>>>>)],
             [key |-> <<"mood">>, value |-> <<"set", 0>>]>>)
    /\ last.filtered = last.metadata

\* C17: every metadata value handed to the vector store is a string, an
\* integer, a float, a boolean or None; never a list, a set or a mapping.
C17_CoercedValuesAreScalars ==
    last.op = "_filter_metadata" =>
        \A item \in DictItems(last.filtered) : item.value[1] \in Scalars

\* A dictionary holding a list and a mapping or set has been filtered.
C17_Witness ==
    /\ last.op = "_filter_metadata"
    /\ \E a, b \in DictItems(last.metadata) :
          /\ a.value[1] = "list" /\ a.value[2] # <<>>
          /\ b.value[1] \in {"dict", "set"}
    /\ last.filtered # <<>>

\* The items the per-key rules give for a dictionary: a scalar value under
\* its key; key_list and key_count for a non-empty list; nothing for an
\* empty list or a mapping; the string form under its key for anything else.
RuleItems(item) ==
    IF item.value[1] \in Scalars THEN {item}
    ELSE IF item.value[1] = "list"
    THEN IF item.value[2] # <<>>
         THEN {[key |-> Append(item.key, "list"),
                value |-> MetaStr(Join(item.value[2]))],
               [key |-> Append(item.key, "count"),
                value |-> <<"int", Len(item.value[2])>>]}
         ELSE {}
    ELSE IF item.value[1] = "dict" THEN {}
    ELSE {[key |-> item.key, value |-> MetaStr(str(item.value))]}

Expected(metadata) == UNION {RuleItems(item) : item \in DictItems(metadata)}

\* No key of the dictionary is the key_list or key_count of one of its
\* non-empty lists.
NoKeyCollision(metadata) ==
    \A item \in DictItems(metadata) :
       item.value[1] = "list" /\ item.value[2] # <<>> =>
          /\ ~HasKey(metadata, Append(item.key, "list"))
          /\ ~HasKey(metadata, Append(item.key, "count"))

C19_ChunkCount ==
    /\ last.op \in {"split_documents", "split_diary_entry"}
         => Len(last.chunks) >= 1
    /\ (last.op = "split_documents" /\ TextLen(last.text) \div 4 <= 250)
         => last.chunks = <<last.text>>

\* the #words of a content and the trimmed non-empty pieces of a tags column
Hashtags(content) ==
    { content[i].word : i \in {j \in 1..Len(content) : content[j].hash} }

AuthorTags(db_tags) ==
    IF db_tags = None THEN {}
    ELSE { db_tags[1][i].word : i \in 1..Len(db_tags[1]) } \ {<<>>}

\* C20: the tags of a loaded row have no repeats, are all lowercase, are as a
\* set the lowercased union of the content's hashtags and the trimmed author
\* tags (empty when there are none), hold no two tags that differ only in
\* case, and are the same set when the row is loaded again.
C20_TagsLowercaseSet ==
    /\ [](last.op = "load" =>
            LET tags == Range(last.tags)
            IN /\ Cardinality(tags) = Len(last.tags)
               /\ \A t \in tags : lower(t) = t
               /\ tags = { lower(t) : t \in Hashtags(last.content)
                                        \cup AuthorTags(last.db_tags) }
               /\ \A t1, t2 \in tags : lower(t1) = lower(t2) => t1 = t2)
    /\ [][(last.op = "load" /\ last'.op = "load")
            => Range(last'.tags) = Range(last.tags)]_vars

\* C21: retrieve_relevant_entries returns the empty list without raising when
\* the vector store is unavailable, when the collection is missing or holds
\* no document, and when the similarity search raises.
C21_RetrievalNeverRaises ==
    last.op = "retrieve_relevant_entries"
      => /\ ~last.raised
         /\ (\/ last.store = None
             \/ coll[collection_name(last.user)] = EmptyBag
             \/ last.failed)
              => last.docs = {}

C21_Witness ==
    /\ last.op = "retrieve_relevant_entries"
    /\ last.store # None
    /\ coll[collection_name(last.user)] # EmptyBag
    /\ last.failed
    /\ last.docs = {}
    /\ ~last.raised

\* C22: when a filter is supplied to retrieve_relevant_entries,
\* generate_response or generate_contextual_response, every chunk returned
\* or used as context of the answer meets every constraint of the filter.
C22_FilterAppliedAtIndex ==
    (/\ last.op \in {"retrieve_relevant_entries", "generate_response",
                     "generate_contextual_response"}
     /\ last.filters # None)
      => \A m \in last.docs : Satisfies(m, last.filters[1])

\* C23: no chunk stored in a user's collection has an empty text.
C23_NoEmptyChunkStored ==
    \A u \in Users : \A m \in BagToSet(coll[collection_name(u)]) :
        TextLen(m.text) > 0

\* A call of run_full_pipeline reached the vector store and every one of its
\* embed-and-store calls failed.
TotalEmbeddingFailure ==
    /\ last.op = "run_full_pipeline"
    /\ last.load_ok
    /\ last.chunks > 0
    /\ \A b \in DOMAIN last.oks : ~last.oks[b]

\* C24: when every embed-and-store call of run_full_pipeline fails, the call
\* returns (it does not raise) a failed status with a non-empty error list,
\* for at most batch_size chunks and for more.
C24_TotalFailureIsFailedStatus ==
    TotalEmbeddingFailure
      => /\ ~last.result.raised
         /\ last.result.status = "failed"
         /\ last.result.errors # <<>>

\* C25: a set-up of the indexing run that raises a configuration error has
\* created no database, migrated no row and written nothing to the vector
\* collections or the sync state.
C25_ConfigErrorBeforeAnyEffect ==
    [][\A u \in Users :
         (OrchestratorInit(u) /\ last'.raised)
           => /\ db' = db
              /\ coll' = coll
              /\ syncFile' = syncFile]_vars

\* C27: constructing the repository of a user again, right after a
\* construction whose migration went through, leaves the user's Entry Store
\* as it is: no shared row is copied a second time.
C27_MigrationIdempotent ==
    [][\A u \in Users :
         (/\ last.op = "IndexingOrchestrator"
          /\ last.user = u
          /\ last.migrated
          /\ OrchestratorInit(u))
           => db' = db]_vars

\* The entry with this id is in the Entry Store of the user / has a chunk in
\* the user's collection.
InEntryStore(u, id) == \E e \in db[user_db_path(u)] : e.id = id

HasChunk(u, id) ==
    \E m \in BagToSet(coll[collection_name(u)]) : m.entry_id = IntVal(id)

\* C26: every entry added to the Entry Store eventually has a chunk in the
\* collection, when runs keep being executed and succeed.
C26_NoEntrySkippedForever ==
    \A id \in 1..MaxEntries :
        InEntryStore(Alice, id) ~> HasChunk(Alice, id)

\* C28: a run_sync or perform_auto_sync in which auto_index_new_entries
\* returned failure leaves the AutoSyncManager's last-sync time as it was.
C28_NoAdvanceOnIndexFailure ==
    [][\A u \in Users :
         ((run_sync(u) \/ perform_auto_sync(u)) /\ ~last'.index_success)
           => autoSync'[auto_sync_file(u)] = autoSync[auto_sync_file(u)]]_vars

\* A session row that is no longer active: its token was logged out,
\* superseded by a later login or found expired.
Revoked(token) ==
    \E r \in user_sessions : r.session_token = token /\ ~r.is_active

ActiveSessions(u) == {r \in user_sessions : r.user_id = u /\ r.is_active}

\* C29: no user ever has two session rows with is_active = 1, a session row
\* that was deactivated (logged out, superseded by a later login or found
\* expired) stays deactivated, and validate_session never accepts the token of
\* a deactivated row.
C29_OneActiveSessionPerUser ==
    /\ [](\A u \in Users : Cardinality(ActiveSessions(u)) <= 1)
    /\ [][\A token \in TokenSpace :
            Revoked(token) =>
              /\ \A r \in user_sessions' :
                   r.session_token = token => ~r.is_active
              /\ ~(validate_session(token) /\ last'.accepted)]_vars

\* Reached: a second login has superseded the first session of a user, and
\* validate_session has just refused the superseded token without finding it
\* expired.
C29_Witness ==
    /\ last.op = "validate_session"
    /\ ~last.accepted /\ ~last.expired
    /\ Revoked(last.session_token)
    /\ \E r \in user_sessions :
         /\ r.is_active
         /\ \E o \in user_sessions :
              /\ o.user_id = r.user_id /\ ~o.is_active /\ o.id < r.id
              /\ o.session_token = last.session_token

\* C30: every chunk a splitter built with chunk_size c returns has at most c
\* characters, for every text and both configured sizes.
C30_ChunkWithinSize ==
    last.op = "configured_split" =>
      \A i \in 1..Len(last.chunks) :
        TextLen(last.chunks[i]) <= last.chunk_size
====
